---------------------------- MODULE Spec2Model ----------------------------
(***************************************************************************)
(* Duplicate file finder (src/main.cpp): files are grouped by size, then   *)
(* by a fingerprint of their first 4096 bytes, then by a fingerprint of    *)
(* their whole content.  The model follows find_duplicates statement by    *)
(* statement, compute_hash block by block, and main's report loop.         *)
(*                                                                         *)
(* File contents are run-length encoded byte strings: a sequence of runs   *)
(* <<byte, count>> with count > 0 and adjacent runs of different bytes, so *)
(* that two contents are equal exactly when their encodings are equal and  *)
(* the real read sizes (4096, 8192) can be kept.                           *)
(*                                                                         *)
(* size_t values are 64 bits wide: a word is <<l1, l2, l3, l4>>, four      *)
(* 16-bit limbs, least significant first.                                  *)
(***************************************************************************)
EXTENDS Integers, Sequences, FiniteSets, TLC

\* ------------------------------------------------------------- bounds
\* Number of directory entries the recursive iteration yields.
MaxFiles == 4

\* ---------------------------------------------------------- constants
PARTIAL_READ_SIZE == 4096
BUFFER_SIZE == 8192

\* ------------------------------------------------------ 64-bit words
LimbBase == 2^16
Zero64 == <<0, 0, 0, 0>>
\* 0x9e3779b9
GoldenRatio == <<31161, 40503, 0, 0>>

RECURSIVE XorBits(_, _, _)
XorBits(x, y, n) ==
    IF n = 0 THEN 0
    ELSE ((x + y) % 2) + 2 * XorBits(x \div 2, y \div 2, n - 1)

Xor64(a, b) == [k \in 1..4 |-> XorBits(a[k], b[k], 16)]

Add64(a, b) ==
    LET s1 == a[1] + b[1]
        s2 == a[2] + b[2] + (s1 \div LimbBase)
        s3 == a[3] + b[3] + (s2 \div LimbBase)
        s4 == a[4] + b[4] + (s3 \div LimbBase)
    IN  <<s1 % LimbBase, s2 % LimbBase, s3 % LimbBase, s4 % LimbBase>>

Mul64(a, m) ==
    LET p1 == a[1] * m
        p2 == a[2] * m + (p1 \div LimbBase)
        p3 == a[3] * m + (p2 \div LimbBase)
        p4 == a[4] * m + (p3 \div LimbBase)
    IN  <<p1 % LimbBase, p2 % LimbBase, p3 % LimbBase, p4 % LimbBase>>

Shl6(a) ==
    [k \in 1..4 |->
        ((a[k] * 64) % LimbBase) + (IF k = 1 THEN 0 ELSE a[k - 1] \div 1024)]

Shr2(a) ==
    [k \in 1..4 |->
        (a[k] \div 4) + (IF k = 4 THEN 0 ELSE (a[k + 1] % 4) * 16384)]

\* ------------------------------------------------- hex formatting
HexDigits == <<"0", "1", "2", "3", "4", "5", "6", "7",
               "8", "9", "a", "b", "c", "d", "e", "f">>

RECURSIVE HexOfNat(_)
\* operator<< of an unsigned value under std::hex: no leading zeros.
HexOfNat(n) ==
    IF n < 16 THEN HexDigits[n + 1]
    ELSE HexOfNat(n \div 16) \o HexDigits[(n % 16) + 1]

RECURSIVE PadLeft(_, _)
PadLeft(s, w) == IF Len(s) >= w THEN s ELSE PadLeft("0" \o s, w)

\* The digits of a word without padding: the most significant non-zero limb
\* unpadded, the limbs below it as four digits each.
RECURSIVE HexFrom(_, _)
HexFrom(a, k) ==
    IF k = 1 THEN HexOfNat(a[1])
    ELSE IF a[k] = 0 THEN HexFrom(a, k - 1)
    ELSE HexOfNat(a[k]) \o
         PadLeft(HexOfNat(a[k - 1]), 4) \o
         (IF k >= 3 THEN PadLeft(HexOfNat(a[k - 2]), 4) ELSE "") \o
         (IF k >= 4 THEN PadLeft(HexOfNat(a[k - 3]), 4) ELSE "")

Hex64(a) == HexFrom(a, 4)

FingerprintNoPad(acc1, acc2) == Hex64(acc1) \o Hex64(acc2)

\* oss << std::hex << std::setfill('0') << std::setw(16) << hash1
\*     << std::setw(16) << hash2
Fingerprint(acc1, acc2) == PadLeft(Hex64(acc1), 16) \o PadLeft(Hex64(acc2), 16)


\* ------------------------------------------------- file contents
RECURSIVE ByteLen(_)
ByteLen(c) == IF c = <<>> THEN 0 ELSE Head(c)[2] + ByteLen(Tail(c))

RECURSIVE TakeBytes(_, _)
TakeBytes(c, n) ==
    IF n = 0 \/ c = <<>> THEN <<>>
    ELSE IF Head(c)[2] >= n THEN << <<Head(c)[1], n>> >>
    ELSE <<Head(c)>> \o TakeBytes(Tail(c), n - Head(c)[2])

RECURSIVE DropBytes(_, _)
DropBytes(c, n) ==
    IF n = 0 \/ c = <<>> THEN c
    ELSE IF Head(c)[2] > n THEN << <<Head(c)[1], Head(c)[2] - n>> >> \o Tail(c)
    ELSE DropBytes(Tail(c), n - Head(c)[2])

\* What file.read(buffer, to_read) delivers at the stream's offset.
ReadChunk(content, offset, to_read) ==
    TakeBytes(DropBytes(content, offset), to_read)

\* The contents a file of the scanned directory may have: empty; and three of
\* 5000 bytes, two that agree on their first 4096 bytes and differ after, and
\* one that differs from both in its first bytes.  (88 is 'X', 89 is 'Y'.)
Contents ==
    { <<>>,
      << <<88, 5000>> >>,
      << <<88, 4096>>, <<89, 904>> >>,
      << <<89, 5000>> >> }

\* The contents of the file compute_hash is followed on, one read at a time:
\* those above, and longer ones, of exactly one buffer, of two reads and of
\* three.
HashContents ==
    Contents \cup
    { << <<88, 8192>> >>,
      << <<88, 9000>> >>,
      << <<88, 4096>>, <<89, 4904>> >>,
      << <<88, 8192>>, <<89, 9000>> >> }

\* std::hash<std::string> is implementation-defined: a deterministic function
\* from byte strings to size_t.  Two such functions stand for it: one without
\* collisions on the blocks of Contents, one where every two blocks collide.
HasherKinds == {"injective", "constant"}

\* Injective on chunks of at most two runs shorter than 2^16 bytes.
InjectiveDigest(block) ==
    << ByteLen(block) % LimbBase,
       block[1][1],
       block[Len(block)][1],
       block[1][2] % LimbBase >>

\* hasher(chunk)
StdHash(kind, block) ==
    CASE kind = "injective" -> InjectiveDigest(block)
      [] kind = "constant" -> <<65535, 65535, 65535, 65535>>

\* --------------------------------------------------- compute_hash
\* hash1 ^= hasher(chunk) + 0x9e3779b9 + (hash1 << 6) + (hash1 >> 2);
CombineHash1(acc, digest) ==
    Xor64(acc, Add64(Add64(Add64(digest, GoldenRatio), Shl6(acc)), Shr2(acc)))

CombineHash2MulAdd(acc, digest) == Add64(Mul64(acc, 31), digest)

\* hash2 ^= hasher(chunk) * 31 + hash2;
CombineHash2(acc, digest) ==
    Xor64(acc, Add64(Mul64(digest, 31), acc))

Min(a, b) == IF a < b THEN a ELSE b

\* size_t to_read = sizeof(buffer);
\* if (max_bytes > 0) to_read = std::min(to_read, max_bytes - total_read);
ToRead(limit, nread) ==
    IF limit > 0 THEN Min(BUFFER_SIZE, limit - nread) ELSE BUFFER_SIZE

\* One pass through the body of while (file): the accumulators and the bytes
\* read so far after it, and whether the loop goes round again (the stream is
\* still good, which it is unless the read came up short, and the byte limit
\* has not been reached).
LoopBody(kind, content, limit, st) ==
    LET to_read == ToRead(limit, st.total_read)
        block == ReadChunk(content, st.total_read, to_read)
        bytes_read == ByteLen(block)
        digest == StdHash(kind, block)
        total == st.total_read + bytes_read
    IN  [ hash1 |-> IF bytes_read > 0 THEN CombineHash1(st.hash1, digest) ELSE st.hash1,
          hash2 |-> IF bytes_read > 0 THEN CombineHash2(st.hash2, digest) ELSE st.hash2,
          total_read |-> total,
          chunk |-> block,
          again |-> (bytes_read = to_read) /\ ~(limit > 0 /\ total >= limit) ]

\* Lines 34-38
InitialHashState ==
    [hash1 |-> Zero64, hash2 |-> Zero64, total_read |-> 0, chunk |-> <<>>, again |-> TRUE]

RECURSIVE RunLoop(_, _, _, _)
RunLoop(kind, content, limit, st) ==
    IF st.again THEN RunLoop(kind, content, limit, LoopBody(kind, content, limit, st))
    ELSE st

\* compute_hash, lines 28-67, with limit for max_bytes: "" when the file does
\* not open, else the fingerprint of its first limit bytes, or of all of it
\* when limit = 0.
compute_hash(opened, kind, content, limit) ==
    IF ~opened THEN ""
    ELSE LET st == RunLoop(kind, content, limit, InitialHashState)
         IN  Fingerprint(st.hash1, st.hash2)

\* ------------------------------------------------------ the machine
VARIABLES
    dir,              \* what the directory iteration yields: path -> entry
    hasher,           \* which std::hash<std::string> the build has
    pc,               \* where the run is
    it,               \* recursive_directory_iterator: next entry
    size_groups,      \* SizeGroupMap
    sizeTodo,         \* keys of size_groups the loop of line 126 has yet to visit
    size,             \* key of the size group being refined
    pathIdx,          \* position of the loop of line 133 in paths
    partial_groups,   \* HashGroupMap of step A
    partialTodo,      \* keys of partial_groups the loop of line 143 has yet to visit
    phash,            \* key of the partial group being refined
    candIdx,          \* position of the loop of line 151 in candidates
    full_groups,      \* HashGroupMap of step B
    duplicate_groups, \* the result of find_duplicates
    i,                \* main: position of the report loop
    total_wasted,     \* main
    reported,         \* main: what was printed for each group
    partialOf,        \* history: what partial_hash returned for each path
    fullOf,           \* history: what full_hash returned for each path
    filepath,         \* compute_hash step by step: argument
    max_bytes,        \* compute_hash step by step: argument
    hash1,            \* compute_hash step by step: first accumulator
    hash2,            \* compute_hash step by step: second accumulator
    total_read,       \* compute_hash step by step: bytes read so far
    chunk,            \* compute_hash step by step: the block last read
    result            \* compute_hash step by step: the string returned

envVars == <<dir, hasher>>
scanVars == <<it, size_groups, sizeTodo>>
stepAVars == <<size, pathIdx, partial_groups, partialTodo>>
stepBVars == <<phash, candIdx, full_groups>>
mainVars == <<i, total_wasted, reported>>
histVars == <<partialOf, fullOf>>
hashVars == <<filepath, max_bytes, hash1, hash2, total_read, chunk, result>>
vars == <<envVars, pc, scanVars, stepAVars, stepBVars, duplicate_groups,
          mainVars, histVars, hashVars>>

Paths == 1..MaxFiles

\* A marker of the history variables: the hash was never asked for.
NoHash == "-"

\* A directory entry: a regular file with its content, or something that is
\* not a regular file (a directory, a symlink).
RegularFile(c) == [kind |-> "regular", content |-> c, file_size |-> ByteLen(c)]
NotRegular == [kind |-> "other", content |-> <<>>, file_size |-> 0]
Entries == {RegularFile(c) : c \in Contents} \cup {NotRegular}

\* entry.file_size(), fs::file_size(path)
FileSize(p) == dir[p].file_size

\* Line 88: the key of size_groups[size]
SizeKey(p) == FileSize(p)

\* groups[key].push_back(path)
PushBack(groups, key, path) ==
    [k \in DOMAIN groups \cup {key} |->
        IF k \in DOMAIN groups
        THEN IF k = key THEN Append(groups[k], path) ELSE groups[k]
        ELSE <<path>>]

Restrict(groups, keys) == [k \in keys |-> groups[k]]

KeepAll(groups) == groups

\* Lines 93-99: erase every group with fewer than 2 paths.
PruneSingles(groups) ==
    Restrict(groups, {k \in DOMAIN groups : ~(Len(groups[k]) < 2)})

\* The arguments the model gives compute_hash.
HashInputs == BOOLEAN \X HasherKinds \X Contents \X {PARTIAL_READ_SIZE, 0}

RECURSIVE Tabulate(_)
Tabulate(inputs) ==
    IF inputs = {} THEN <<>>
    ELSE LET a == CHOOSE x \in inputs : TRUE
         IN  (a :> compute_hash(a[1], a[2], a[3], a[4])) @@ Tabulate(inputs \ {a})

\* compute_hash tabulated, so that it is evaluated once for each input.
HashTable == Tabulate(HashInputs)

\* Lines 70-72
partial_hash(opened, path) ==
    HashTable[<<opened, hasher, dir[path].content, PARTIAL_READ_SIZE>>]

\* Lines 75-77
full_hash(opened, path) ==
    HashTable[<<opened, hasher, dir[path].content, 0>>]

\* What both specifications start from, but the directory, pc and the hash
\* call.
InitCommon ==
    /\ hasher \in HasherKinds
    /\ it = 1
    /\ size_groups = <<>>
    /\ sizeTodo = {}
    /\ size = 0
    /\ pathIdx = 1
    /\ partial_groups = <<>>
    /\ partialTodo = {}
    /\ phash = ""
    /\ candIdx = 1
    /\ full_groups = <<>>
    /\ duplicate_groups = <<>>
    /\ i = 1
    /\ total_wasted = 0
    /\ reported = <<>>
    /\ partialOf = [p \in Paths |-> NoHash]
    /\ fullOf = [p \in Paths |-> NoHash]
    /\ hash1 = Zero64
    /\ hash2 = Zero64
    /\ total_read = 0
    /\ chunk = <<>>
    /\ result = NoHash

Init ==
    /\ InitCommon
    /\ dir \in [Paths -> Entries]
    /\ pc = "scan"
    /\ filepath = 0
    /\ max_bytes = 0

\* Where the run goes when the loop of line 126 has no size group left:
\* find_duplicates returns (line 167) and main's report loop (line 233) starts,
\* or, with no group to report, main ends.
AfterSizeGroup(todo, groups) ==
    IF todo # {} THEN "sizeLoop"
    ELSE IF Len(groups) > 0 THEN "report" ELSE "done"

\* Where the run goes when a partial group is done with: to the next one of
\* the loop of line 143 or, none being left (line 165), on with the size groups.
AfterPartialGroup(todo, groups) ==
    IF todo # {} THEN "stepBLoop" ELSE AfterSizeGroup(sizeTodo, groups)

\* ---- group_by_size
\* Lines 85-90: is_regular_file(), file_size() and the iterator's increment
\* throw std::filesystem::filesystem_error when the entry cannot be queried or
\* stepped over (permission denied, the entry vanished); that can happen at
\* any entry.  Nothing catches the exception: the run ends.
VisitError ==
    /\ pc = "scan" /\ it <= MaxFiles
    /\ pc' = "aborted"
    /\ UNCHANGED <<envVars, scanVars, stepAVars, stepBVars, duplicate_groups,
                   mainVars, histVars, hashVars>>

VisitRegular ==
    /\ pc = "scan" /\ it <= MaxFiles
    /\ dir[it].kind = "regular"
    /\ size_groups' = PushBack(size_groups, SizeKey(it), it)
    /\ it' = it + 1
    /\ UNCHANGED <<envVars, pc, sizeTodo, stepAVars, stepBVars, duplicate_groups,
                   mainVars, histVars, hashVars>>

VisitOther ==
    /\ pc = "scan" /\ it <= MaxFiles
    /\ dir[it].kind = "other"
    /\ it' = it + 1
    /\ UNCHANGED <<envVars, pc, size_groups, sizeTodo, stepAVars, stepBVars,
                   duplicate_groups, mainVars, histVars, hashVars>>

\* Lines 92-101 and 118: the pruned map is returned and the loop of line 126
\* starts over it.
Prune ==
    /\ pc = "scan" /\ it > MaxFiles
    /\ size_groups' = PruneSingles(size_groups)
    /\ sizeTodo' = DOMAIN size_groups'
    /\ pc' = AfterSizeGroup(sizeTodo', duplicate_groups)
    /\ UNCHANGED <<envVars, it, stepAVars, stepBVars, duplicate_groups,
                   mainVars, histVars, hashVars>>

\* ---- find_duplicates
\* Line 126: the next size group, in the unordered_map's order (any).
NextSizeGroup ==
    /\ pc = "sizeLoop"
    /\ \E k \in sizeTodo :
          /\ size' = k
          /\ sizeTodo' = sizeTodo \ {k}
    /\ partial_groups' = <<>>
    /\ pathIdx' = 1
    /\ pc' = "stepA"
    /\ UNCHANGED <<envVars, it, size_groups, partialTodo, stepBVars,
                   duplicate_groups, mainVars, histVars, hashVars>>

\* Line 29: opening a file that exists may succeed and may fail (no
\* permission, no file descriptor left), each time it is tried.
OpenOutcomes == BOOLEAN

UsableAlways(hash) == TRUE

\* Lines 135 and 153: if (!hash.empty())
Usable(hash) == hash # ""

\* Lines 133-138: one path of the size group.  After the last path step A is over and the loop over
\* partial_groups starts (line 143).
PartialHashStep ==
    /\ pc = "stepA" /\ pathIdx <= Len(size_groups[size])
    /\ \E opened \in OpenOutcomes :
          LET path == size_groups[size][pathIdx]
              hash == partial_hash(opened, path)
          IN  /\ partial_groups' = IF Usable(hash) THEN PushBack(partial_groups, hash, path)
                                   ELSE partial_groups
              /\ partialOf' = [partialOf EXCEPT ![path] = hash]
    /\ pathIdx' = pathIdx + 1
    /\ IF pathIdx' <= Len(size_groups[size])
       THEN UNCHANGED <<pc, partialTodo>>
       ELSE /\ partialTodo' = DOMAIN partial_groups'
            /\ pc' = AfterPartialGroup(partialTodo', duplicate_groups)
    /\ UNCHANGED <<envVars, scanVars, size, stepBVars,
                   duplicate_groups, mainVars, fullOf, hashVars>>

SkipNone(candidates) == FALSE

\* Line 145: if (candidates.size() < 2) continue;
SkipCandidates(candidates) == Len(candidates) < 2

SkipPartialGroup ==
    /\ pc = "stepBLoop"
    /\ \E k \in partialTodo :
          /\ SkipCandidates(partial_groups[k])
          /\ partialTodo' = partialTodo \ {k}
    /\ pc' = AfterPartialGroup(partialTodo', duplicate_groups)
    /\ UNCHANGED <<envVars, scanVars, size, pathIdx, partial_groups, stepBVars,
                   duplicate_groups, mainVars, histVars, hashVars>>

NextPartialGroup ==
    /\ pc = "stepBLoop"
    /\ \E k \in partialTodo :
          /\ ~SkipCandidates(partial_groups[k])
          /\ partialTodo' = partialTodo \ {k}
          /\ phash' = k
    /\ full_groups' = <<>>
    /\ candIdx' = 1
    /\ pc' = "stepB"
    /\ UNCHANGED <<envVars, scanVars, size, pathIdx, partial_groups,
                   duplicate_groups, mainVars, histVars, hashVars>>

FullKeyIsPrefix(prefix, hash) == prefix

\* Line 154: the key of full_groups[hash]
FullKey(prefix, hash) == hash

\* Lines 151-156: one path of the candidates.
FullHashStep ==
    /\ pc = "stepB" /\ candIdx <= Len(partial_groups[phash])
    /\ \E opened \in OpenOutcomes :
          LET path == partial_groups[phash][candIdx]
              hash == full_hash(opened, path)
          IN  /\ full_groups' = IF Usable(hash)
                                THEN PushBack(full_groups, FullKey(phash, hash), path)
                                ELSE full_groups
              /\ fullOf' = [fullOf EXCEPT ![path] = hash]
    /\ candIdx' = candIdx + 1
    /\ UNCHANGED <<envVars, pc, scanVars, stepAVars, phash, duplicate_groups,
                   mainVars, partialOf, hashVars>>

ConfirmedFromThree(dupes) == Len(dupes) > 2

\* Line 160: if (dupes.size() >= 2)
Confirmed(dupes) == Len(dupes) >= 2

\* The orders in which an unordered_map may yield the given keys.
Orders(keys) ==
    {o \in [1..Cardinality(keys) -> keys] : \A a, b \in DOMAIN o : o[a] = o[b] => a = b}

RECURSIVE Flatten(_)
Flatten(lists) == IF lists = <<>> THEN <<>> ELSE Head(lists) \o Flatten(Tail(lists))

EmitFlat(groups, confirmed) ==
    IF confirmed = <<>> THEN groups ELSE <<Flatten(groups \o confirmed)>>

\* Line 161: duplicate_groups.push_back(std::move(dupes)), for each in turn.
Emit(groups, confirmed) == groups \o confirmed

\* Lines 159-163: every full group of at least 2 paths is appended.
Collect ==
    /\ pc = "stepB" /\ candIdx > Len(partial_groups[phash])
    /\ \E o \in Orders({k \in DOMAIN full_groups : Confirmed(full_groups[k])}) :
          duplicate_groups' = Emit(duplicate_groups, [n \in DOMAIN o |-> full_groups[o[n]]])
    /\ pc' = AfterPartialGroup(partialTodo, duplicate_groups')
    /\ UNCHANGED <<envVars, scanVars, stepAVars, stepBVars, mainVars, histVars, hashVars>>

\* ---- main
\* Line 236: file_size * (group.size() - 1)
Wasted(file_size, count) == file_size * (count - 1)

AssignOnly(total, wasted) == wasted

\* Line 237: total_wasted += wasted
AddAssign(total, wasted) == total + wasted

\* Lines 233-254: one group is reported; after the last one main ends.
ReportGroup ==
    /\ pc = "report" /\ i <= Len(duplicate_groups)
    /\ LET group == duplicate_groups[i]
           file_size == FileSize(group[1])
           wasted == Wasted(file_size, Len(group))
       IN  /\ total_wasted' = AddAssign(total_wasted, wasted)
           /\ reported' = Append(reported, [count |-> Len(group),
                                            file_size |-> file_size,
                                            wasted |-> wasted])
    /\ i' = i + 1
    /\ pc' = IF i' <= Len(duplicate_groups) THEN "report" ELSE "done"
    /\ UNCHANGED <<envVars, scanVars, stepAVars, stepBVars, duplicate_groups,
                   histVars, hashVars>>

Next ==
    \/ VisitError
    \/ VisitRegular
    \/ VisitOther
    \/ Prune
    \/ NextSizeGroup
    \/ PartialHashStep
    \/ SkipPartialGroup
    \/ NextPartialGroup
    \/ FullHashStep
    \/ Collect
    \/ ReportGroup

Spec == Init /\ [][Next]_vars

\* ---- compute_hash, one read at a time
\* One call compute_hash(filepath, max_bytes) on a regular file of the
\* directory, as partial_hash or full_hash makes it.
HashInit ==
    /\ InitCommon
    /\ pc = "open"
    /\ filepath \in Paths
    /\ \E c \in HashContents :
          dir = [p \in Paths |-> IF p = filepath THEN RegularFile(c) ELSE NotRegular]
    /\ max_bytes \in {PARTIAL_READ_SIZE, 0}

notHashVars == <<envVars, scanVars, stepAVars, stepBVars, duplicate_groups,
                 mainVars, histVars>>

\* Lines 29-32
OpenFails ==
    /\ pc = "open"
    /\ result' = ""
    /\ pc' = "returned"
    /\ UNCHANGED <<notHashVars, filepath, max_bytes, hash1, hash2, total_read, chunk>>

\* Lines 29-39
OpenSucceeds ==
    /\ pc = "open"
    /\ hash1' = InitialHashState.hash1
    /\ hash2' = InitialHashState.hash2
    /\ total_read' = InitialHashState.total_read
    /\ pc' = "loop"
    /\ UNCHANGED <<notHashVars, filepath, max_bytes, chunk, result>>

\* Lines 41-60: one pass through the loop.
ReadBlock ==
    /\ pc = "loop"
    /\ LET st == LoopBody(hasher, dir[filepath].content, max_bytes,
                          [hash1 |-> hash1, hash2 |-> hash2, total_read |-> total_read,
                           chunk |-> chunk, again |-> TRUE])
       IN  /\ hash1' = st.hash1
           /\ hash2' = st.hash2
           /\ total_read' = st.total_read
           /\ chunk' = st.chunk
           /\ pc' = IF st.again THEN "loop" ELSE "format"
    /\ UNCHANGED <<notHashVars, filepath, max_bytes, result>>

\* Lines 62-66
FormatResult ==
    /\ pc = "format"
    /\ result' = Fingerprint(hash1, hash2)
    /\ pc' = "returned"
    /\ UNCHANGED <<notHashVars, filepath, max_bytes, hash1, hash2, total_read, chunk>>

HashNext ==
    \/ OpenFails
    \/ OpenSucceeds
    \/ ReadBlock
    \/ FormatResult

HashSpec == HashInit /\ [][HashNext]_vars


\* ------------------------------------------------------ properties
Members(group) == {group[n] : n \in DOMAIN group}

RegularPaths == {p \in Paths : dir[p].kind = "regular"}

\* find_duplicates has returned.
Returned == pc \in {"report", "done"}

\* An open of the file failed, at step A or at step B.
OpenFailed(p) == partialOf[p] = "" \/ fullOf[p] = ""

SameContent(p, q) == dir[p].content = dir[q].content

InSameGroup(p, q) ==
    \E n \in DOMAIN duplicate_groups : {p, q} \subseteq Members(duplicate_groups[n])

\* What the two fingerprints of a file are when it opens.
PrefixFingerprint(p) == HashTable[<<TRUE, hasher, dir[p].content, PARTIAL_READ_SIZE>>]
WholeFingerprint(p) == HashTable[<<TRUE, hasher, dir[p].content, 0>>]

\* C1, as claimed: the members of every duplicate group are byte-for-byte
\* identical, whatever the block hash.
C1_MembersIdentical ==
    \A n \in DOMAIN duplicate_groups :
        \A p, q \in Members(duplicate_groups[n]) : SameContent(p, q)

\* C1, amended: the members of every duplicate group were all given the same
\* full-content fingerprint by full_hash; they are byte-for-byte identical when
\* the block hash has no collisions and each member fits in one read of
\* BUFFER_SIZE bytes.
C1_MembersShareFingerprint ==
    \A n \in DOMAIN duplicate_groups :
        \A p, q \in Members(duplicate_groups[n]) :
            /\ fullOf[p] \notin {NoHash, ""}
            /\ fullOf[p] = fullOf[q]
            /\ (hasher = "injective" /\ FileSize(p) <= BUFFER_SIZE) => SameContent(p, q)

\* A group of non-empty identical files found with the collision-free hash,
\* beside a file of the same size and another content.
C1_Witness ==
    /\ pc = "done"
    /\ hasher = "injective"
    /\ \E n \in DOMAIN duplicate_groups :
          \E p \in Members(duplicate_groups[n]), q \in RegularPaths :
              /\ FileSize(p) > 0
              /\ FileSize(q) = FileSize(p)
              /\ ~SameContent(p, q)

\* C2, as claimed: at the end of the run any two regular files with the same
\* content are members of the same duplicate group.
C2_IdenticalGrouped ==
    pc = "done" =>
        \A p, q \in RegularPaths : (p # q /\ SameContent(p, q)) => InSameGroup(p, q)

\* C2, amended: once find_duplicates has returned, any two regular files with
\* the same content that opened each time they were hashed are members of the
\* same duplicate group.
C2_IdenticalReadableGrouped ==
    Returned =>
        \A p, q \in RegularPaths :
            (p # q /\ SameContent(p, q) /\ ~OpenFailed(p) /\ ~OpenFailed(q))
                => InSameGroup(p, q)

\* Two identical files grouped although a third identical one failed to open.
C2_Witness ==
    /\ pc = "done"
    /\ \E p, q, r \in RegularPaths :
          /\ p # q /\ p # r /\ q # r
          /\ SameContent(p, q) /\ SameContent(p, r)
          /\ ~OpenFailed(p) /\ ~OpenFailed(q) /\ OpenFailed(r)
          /\ InSameGroup(p, q)

\* C3: no group of fewer than 2 paths passes a phase boundary: the size groups
\* group_by_size returned, the partial group step B is hashing, and the
\* duplicate groups all have at least 2 members.
C3_NoSmallGroupPastPhase ==
    /\ pc \notin {"scan", "aborted"} => \A k \in DOMAIN size_groups : Len(size_groups[k]) >= 2
    /\ pc = "stepB" => Len(partial_groups[phash]) >= 2
    /\ \A n \in DOMAIN duplicate_groups : Len(duplicate_groups[n]) >= 2

\* A run that dropped a file of unique size, skipped a file of unique prefix
\* and still found a group.
C3_Witness ==
    /\ pc = "done"
    /\ Len(duplicate_groups) >= 1
    /\ \E p \in RegularPaths : FileSize(p) \notin DOMAIN size_groups
    /\ \E q \in RegularPaths : partialOf[q] \notin {NoHash, ""} /\ fullOf[q] = NoHash

\* C4: the members of every duplicate group have the same size.
C4_MembersSameSize ==
    \A n \in DOMAIN duplicate_groups :
        \A p, q \in Members(duplicate_groups[n]) : FileSize(p) = FileSize(q)

\* Two duplicate groups of different sizes.
C4_Witness ==
    /\ pc = "done"
    /\ \E m, n \in DOMAIN duplicate_groups :
          FileSize(duplicate_groups[m][1]) # FileSize(duplicate_groups[n][1])

RECURSIVE SumWasted(_)
SumWasted(lines) ==
    IF lines = <<>> THEN 0 ELSE Head(lines).wasted + SumWasted(Tail(lines))

\* C5: the n-th line of the report gives, for the n-th group, of count files of
\* size s, the wasted space s * (count - 1); the total is the sum of the lines'
\* wasted space; at the end every group has its line.
C5_WastedArithmetic ==
    /\ \A n \in DOMAIN reported :
          /\ n \in DOMAIN duplicate_groups
          /\ reported[n].count = Cardinality(Members(duplicate_groups[n]))
          /\ \A p \in Members(duplicate_groups[n]) :
                reported[n].wasted = FileSize(p) * (reported[n].count - 1)
    /\ total_wasted = SumWasted(reported)
    /\ pc = "done" => Len(reported) = Len(duplicate_groups)

\* A report of two groups that both waste space.
C5_Witness ==
    /\ pc = "done"
    /\ Len(reported) = 2
    /\ reported[1].wasted > 0
    /\ reported[2].wasted > 0

\* The duplicate groups of a set of files that all open: its classes of at
\* least 2 files of the same size, prefix fingerprint and whole fingerprint.
SameGroupKey(p, q) ==
    /\ FileSize(p) = FileSize(q)
    /\ PrefixFingerprint(p) = PrefixFingerprint(q)
    /\ WholeFingerprint(p) = WholeFingerprint(q)
GroupsAmong(files) ==
    {g \in {{q \in files : SameGroupKey(p, q)} : p \in files} : Cardinality(g) >= 2}

\* C6: once find_duplicates has returned, a file that failed to open is in no
\* duplicate group, and the duplicate groups are those of the other regular
\* files alone, each once.
C6_UnreadableExcluded ==
    Returned =>
        LET failed == {p \in RegularPaths : OpenFailed(p)}
            found == {Members(duplicate_groups[n]) : n \in DOMAIN duplicate_groups}
        IN  /\ \A g \in found : g \cap failed = {}
            /\ found = GroupsAmong(RegularPaths \ failed)
            /\ Cardinality(found) = Len(duplicate_groups)

\* A file that opened at step A and failed to open at step B, beside a group
\* of two files with its content.
C6_Witness ==
    /\ pc = "done"
    /\ \E r \in RegularPaths :
          /\ partialOf[r] \notin {NoHash, ""}
          /\ fullOf[r] = ""
          /\ \E n \in DOMAIN duplicate_groups :
                SameContent(r, duplicate_groups[n][1])

\* C7, as claimed: an entry that cannot be queried or stepped over is skipped
\* and the scan goes on; the error never ends the run.
C7_ScanNeverAborts == pc # "aborted"

ZeroFingerprint == "00000000000000000000000000000000"

\* C8: a zero-byte file that opens gets the all-zero fingerprint at both steps;
\* once find_duplicates has returned, two or more zero-byte files that opened
\* each time they were hashed make up one duplicate group, and the line
\* reporting a group of zero-byte files gives 0 wasted bytes.
C8_EmptyFiles ==
    LET opened == {p \in RegularPaths : FileSize(p) = 0 /\ ~OpenFailed(p)}
    IN  /\ \A p \in Paths :
              (dir[p].kind = "regular" /\ FileSize(p) = 0) =>
                  /\ partialOf[p] \in {NoHash, "", ZeroFingerprint}
                  /\ fullOf[p] \in {NoHash, "", ZeroFingerprint}
        /\ (Returned /\ Cardinality(opened) >= 2) =>
              /\ \E n \in DOMAIN duplicate_groups : Members(duplicate_groups[n]) = opened
              /\ Cardinality({n \in DOMAIN duplicate_groups :
                                 Members(duplicate_groups[n]) \cap opened # {}}) = 1
        /\ \A n \in DOMAIN reported :
              FileSize(duplicate_groups[n][1]) = 0 => reported[n].wasted = 0

\* Two zero-byte files reported as a group.
C8_Witness ==
    /\ pc = "done"
    /\ \E n \in DOMAIN reported :
          /\ reported[n].file_size = 0
          /\ reported[n].count >= 2
          /\ reported[n].wasted = 0
          /\ \A p \in Members(duplicate_groups[n]) : fullOf[p] = ZeroFingerprint

\* C9: a step that computes the full-content fingerprint of a file finds every
\* regular file of its size already partial-hashed, the file itself with a
\* usable prefix fingerprint, and another file of its size with the same prefix
\* fingerprint; a fingerprint once computed stays. So a file whose size is
\* unique, or whose prefix fingerprint is unique within its size group, is never
\* full-hashed.
C9_FullHashOnlyForSurvivors ==
    [][fullOf' # fullOf =>
          \A p \in Paths :
              fullOf'[p] # fullOf[p] =>
                  /\ fullOf[p] = NoHash
                  /\ partialOf' = partialOf
                  /\ partialOf[p] \notin {NoHash, ""}
                  /\ \A q \in Paths :
                        (dir[q].kind = "regular" /\ FileSize(q) = FileSize(p))
                            => partialOf[q] # NoHash
                  /\ \E q \in Paths \ {p} :
                        /\ dir[q].kind = "regular"
                        /\ FileSize(q) = FileSize(p)
                        /\ partialOf[q] = partialOf[p]]_vars

\* A file that was full-hashed beside a file of its size that was partial-hashed
\* and, its prefix fingerprint being unique, never full-hashed.
C9_Witness ==
    /\ pc = "done"
    /\ \E p, q \in RegularPaths :
          /\ FileSize(p) = FileSize(q)
          /\ fullOf[p] \notin {NoHash, ""}
          /\ partialOf[q] \notin {NoHash, "", partialOf[p]}
          /\ fullOf[q] = NoHash

\* C10, as claimed: a read of at least one byte updates the second accumulator
\* to hash2 * 31 + digest, modulo 2^64.
C10_MultiplyAdd ==
    [][(pc = "loop" /\ chunk' # <<>>)
          => hash2' = Add64(Mul64(hash2, 31), StdHash(hasher, chunk'))]_vars

\* C10, amended: a read of at least one byte updates the second accumulator to
\* hash2 XOR (digest * 31 + hash2), modulo 2^64, where digest is the block hash
\* of the bytes read; a read of no byte leaves it alone.
C10_XorOfMultiplyAdd ==
    [][pc = "loop" =>
          IF chunk' # <<>>
          THEN hash2' = Xor64(hash2, Add64(Mul64(StdHash(hasher, chunk'), 31), hash2))
          ELSE hash2' = hash2]_vars

\* The second block of a file has been folded into a non-zero accumulator.
C10_Witness ==
    /\ pc = "format"
    /\ total_read > BUFFER_SIZE
    /\ hash2 # Zero64
    /\ chunk # <<>>

=============================================================================
